---- MODULE Spec2Model ----
(***************************************************************************)
(* gri: one run of the command line of src/gri/__main__.py.                *)
(*                                                                         *)
(* The run is sequential.  The group callback `cli` builds the App (one    *)
(* GerritServer per configured or selected server), runs the implicit      *)
(* `owned` command when no subcommand was given, and saves the recorded    *)
(* console when --output was given.  click, in chain mode, runs the group  *)
(* callback first and the chained subcommands after it returned.  Every    *)
(* subcommand calls App.report, which calls App.query: one blocking query  *)
(* per endpoint, in order.  Each endpoint query is a step of its own,      *)
(* because its result (records, or an exception) comes from outside.       *)
(***************************************************************************)
EXTENDS Integers, Sequences, FiniteSets, TLC

\* ------------------------------------------------------------- bounds
MaxServers == 2
MaxRecs == 1
MaxCmds == 2

\* ------------------------------------------------- program constants
\* default of --abandon-age
DefaultAbandonAge == 90

\* default of --user
user == "self"

\* the subcommands of the group
Commands == {"owned", "incoming", "merged"}

\* ---------------------------------------------------- input domains
\* Raw records an endpoint may return.  number is unique within a server,
\* not across servers; danger is the derived danger level of the item.
RawRecords ==
    { [number |-> 1, danger |-> 2, age |-> 120, score |-> -1, status |-> "NEW"],
      [number |-> 1, danger |-> 2, age |-> 120, score |-> 0, status |-> "NEW"],
      [number |-> 2, danger |-> 1, age |-> 30, score |-> -1, status |-> "ABANDONED"] }

\* the record lists one endpoint can answer with: numbers are distinct
RecordLists ==
    { s \in UNION { [1..k -> RawRecords] : k \in 0..MaxRecs } :
        \A i, j \in 1..Len(s) : i # j => s[i].number # s[j].number }

\* the outcome of item.query(query=query): a list of records, or an exception
Responses ==
    { [raised |-> FALSE, records |-> s] : s \in RecordLists }
      \cup { [raised |-> TRUE, records |-> <<>>] }

\* ~/.gertty.yaml: the configured servers, and for each whether GerritServer()
\* constructs (ok) or raises SystemError
Configs ==
    UNION { { [i \in 1..n |-> [name |-> i, ok |-> okf[i]]] : okf \in [1..n -> BOOLEAN] }
            : n \in 0..MaxServers }


VARIABLES
    cfg,          \* Config()["servers"]
    params,       \* ctx.params: serverGiven, server, abandon, force, abandon_age, output
    pending,      \* number of chained subcommands not yet invoked
    pc,           \* position of the run
    stage,        \* "callback": inside cli(); "chain": after it returned
    exitCode,     \* -1 while running
    servers,      \* App.servers
    reviews,      \* App.reviews
    idx,          \* App.query: index of the next endpoint to query
    query_,       \* the query string of the running report
    title,        \* the title of the running report
    rows,         \* the rows of the table App.report is rendering
    term,         \* what the recording console has printed: kinds, not texts
    html,         \* the file term.save_html wrote (<<>>: none)
    nQueries,     \* log: number of endpoint queries issued in the run
    answered,     \* log: what each endpoint answered in the running query
    discarded,    \* log: self.reviews = list() dropped items of an earlier query
    abandonCalls  \* log: Review.abandon calls issued

vars == << cfg, params, pending, pc, stage, exitCode, servers, reviews, idx, query_,
           title, rows, term, html, nQueries, answered, discarded, abandonCalls >>

\* ----------------------------------------------------------- helpers
\* Review(record, item)
Review(record, item) == [data |-> record, server |-> item]

\* ------------------------------------------------------- App.__init__
\* the servers to construct: all of them, or [cfg["servers"][int(server)]]
IndexError(c, p) == p.serverGiven /\ (p.server + 1) \notin 1..Len(c)

selected(c, p) == IF p.serverGiven THEN << c[p.server + 1] >> ELSE c

\* for srv in ...: try: self.servers.append(GerritServer(...))
\*                 except SystemError as exc: LOG.error(exc)
\* constructAbortMut: the loop given up at the first failure
RECURSIVE constructAbortMut(_)
constructAbortMut(sel) ==
    IF sel = <<>> THEN <<>>
    ELSE IF Head(sel).ok THEN << Head(sel).name >> \o constructAbortMut(Tail(sel))
    ELSE <<>>

RECURSIVE construct(_)
construct(sel) ==
    IF sel = <<>> THEN <<>>
    ELSE IF Head(sel).ok THEN << Head(sel).name >> \o construct(Tail(sel))
    ELSE construct(Tail(sel))

\* if not self.servers: sys.exit(1)
\* NoServersMut: the test left out
NoServersMut(srvs) == FALSE
NoServers(srvs) == Len(srvs) = 0

\* the tables on the recording console
Tables(t) == { k \in 1..Len(t) : t[k].kind = "table" }

\* App.header
header(srvs) == [kind |-> "header", n |-> Len(srvs)]

\* ---------------------------------------------------------- App.query
\* self.reviews = list()
\* resetKeepMut: the list kept from the earlier query
resetKeepMut(old) == old
reset(old) == <<>>

\* for record in item.query(query=query): self.reviews.append(Review(record, item))
\* appendDedupMut: a record some endpoint already returned is skipped
RECURSIVE appendDedupMut(_, _, _)
appendDedupMut(acc, records, item) ==
    IF records = <<>> THEN acc
    ELSE IF \E k \in 1..Len(acc) : acc[k].data = Head(records)
         THEN appendDedupMut(acc, Tail(records), item)
         ELSE appendDedupMut(Append(acc, Review(Head(records), item)), Tail(records), item)

appendRecords(acc, records, item) ==
    acc \o [k \in 1..Len(records) |-> Review(records[k], item)]

\* --------------------------------------------------------- App.report
\* Review.__lt__: danger descending, then age descending, then number ascending
ReviewLt(a, b) ==
    \/ a.data.danger > b.data.danger
    \/ a.data.danger = b.data.danger /\ a.data.age > b.data.age
    \/ a.data.danger = b.data.danger /\ a.data.age = b.data.age
         /\ a.data.number < b.data.number

\* sorted(): stable, compares with < only
InsertSorted(s, x) ==
    LET before == { k \in 1..Len(s) : ReviewLt(x, s[k]) }
        pos == IF before = {} THEN Len(s) + 1
               ELSE CHOOSE k \in before : \A m \in before : k <= m
    IN SubSeq(s, 1, pos - 1) \o << x >> \o SubSeq(s, pos, Len(s))

RECURSIVE SortFrom(_, _)
SortFrom(acc, s) ==
    IF s = <<>> THEN acc ELSE SortFrom(InsertSorted(acc, Head(s)), Tail(s))

sorted(s) == SortFrom(<<>>, s)

\* Review.as_columns: review number, age, danger tag, score
as_columns(r) ==
    [review |-> r.data.number, age |-> r.data.age, meta |-> r.data.danger,
     score |-> r.data.score]

\* the abandon step of the report loop: it is commented out, no call is issued.
\* abandonInvertedMut: the step as the comment has it, with dry=force.
abandonInvertedMut(r, p, q) ==
    IF p.abandon /\ r.data.score < 0 /\ r.data.age >= p.abandon_age
         /\ r.data.status = "NEW" /\ q # "incoming"
    THEN << [review |-> r, dry |-> p.force] >>
    ELSE <<>>

\* abandonLooseMut: the thresholds of the comment (score < 1, age > abandon_age)
abandonLooseMut(r, p, q) ==
    IF p.abandon /\ r.data.score < 1 /\ r.data.age > p.abandon_age /\ q # "incoming"
    THEN << [review |-> r, dry |-> ~p.force] >>
    ELSE <<>>

abandonStep(r, p, q) == <<>>

RECURSIVE abandonAll(_, _, _)
abandonAll(s, p, q) ==
    IF s = <<>> THEN <<>> ELSE abandonStep(Head(s), p, q) \o abandonAll(Tail(s), p, q)

\* ---------------------------------------------------------------- Init
Init ==
    /\ cfg \in Configs
    /\ params \in { [serverGiven |-> g, server |-> s, abandon |-> a, force |-> f,
                     abandon_age |-> DefaultAbandonAge, output |-> o] :
                    g \in BOOLEAN, s \in 0..MaxServers, a \in BOOLEAN,
                    f \in BOOLEAN, o \in BOOLEAN }
    /\ ~params.serverGiven => params.server = 0
    /\ params.serverGiven => params.server <= Len(cfg)
    /\ pending \in 0..MaxCmds
    /\ pc = "start"
    /\ stage = "callback"
    /\ exitCode = -1
    /\ servers = <<>>
    /\ reviews = <<>>
    /\ idx = 1
    /\ query_ = ""
    /\ title = ""
    /\ rows = <<>>
    /\ term = <<>>
    /\ html = <<>>
    /\ nQueries = 0
    /\ answered = <<>>
    /\ discarded = FALSE
    /\ abandonCalls = <<>>

\* ------------------------------------------------------------- actions
\* cli(), up to and including ctx.obj = App(server=server, user=user)
cli ==
    /\ pc = "start"
    /\ IF IndexError(cfg, params)
       THEN /\ pc' = "crashed"
            /\ exitCode' = 1
            /\ UNCHANGED << servers, term >>
       ELSE LET srvs == construct(selected(cfg, params)) IN
            /\ servers' = srvs
            /\ IF NoServers(srvs)
               THEN /\ pc' = "exited"
                    /\ exitCode' = 1
                    /\ UNCHANGED term
               ELSE /\ term' = Append(term, header(srvs))
                    /\ pc' = IF pending = 0 THEN "implicit" ELSE "save"
                    /\ UNCHANGED exitCode
    /\ UNCHANGED << cfg, params, pending, stage, reviews, idx, query_, title, rows,
                    html, nQueries, answered, discarded, abandonCalls >>

\* a subcommand is entered: from the chain, or as the implicit `owned`
Entered(name) ==
    \/ pc = "implicit" /\ name = "owned"
    \/ pc = "dispatch" /\ pending > 0 /\ name \in Commands

\* App.report(query, title) up to the first endpoint query: if query: self.query(query),
\* and there self.reviews = list()
report(q, t) ==
    /\ query_' = q
    /\ title' = t
    /\ reviews' = IF q # "" THEN reset(reviews) ELSE reviews
    /\ rows' = <<>>
    /\ answered' = <<>>
    /\ idx' = 1
    /\ pc' = IF q # "" /\ Len(servers) > 0 THEN "query" ELSE "render"
    /\ discarded' = (q # "" /\ reviews # <<>>)
    /\ pending' = IF pc = "dispatch" THEN pending - 1 ELSE pending
    /\ UNCHANGED << cfg, params, stage, exitCode, servers, term, html, nQueries,
                    abandonCalls >>

owned ==
    /\ Entered("owned")
    /\ report("status:open owner:self",
              IF user = "self" THEN "Own reviews" ELSE "Reviews owned by")

incoming ==
    /\ Entered("incoming")
    /\ report("reviewer:self status:open", "Merged Reviews")

merged ==
    /\ Entered("merged")
    /\ report(" status:merged -age:1d owner:self", "Merged Reviews (1d)")

\* App.query: one turn of `for item in self.servers`.  An exception of item.query
\* is caught nowhere: it ends the run with a traceback.
query ==
    /\ pc = "query"
    /\ idx <= Len(servers)
    /\ \E resp \in Responses :
         /\ nQueries' = nQueries + 1
         /\ answered' = Append(answered, [server |-> servers[idx], resp |-> resp])
         /\ IF resp.raised
            THEN /\ pc' = "crashed"
                 /\ exitCode' = 1
                 /\ UNCHANGED << reviews, idx >>
            ELSE /\ reviews' = appendRecords(reviews, resp.records, servers[idx])
                 /\ idx' = idx + 1
                 /\ pc' = IF idx = Len(servers) THEN "render" ELSE "query"
                 /\ UNCHANGED exitCode
    /\ UNCHANGED << cfg, params, pending, stage, servers, query_, title, rows, term,
                    html, discarded, abandonCalls >>

\* App.report after the query: the sorted table and the summary line
render ==
    /\ pc = "render"
    /\ LET ordered == sorted(reviews) IN
         /\ rows' = [k \in 1..Len(ordered) |-> as_columns(ordered[k])]
         /\ abandonCalls' = abandonCalls \o abandonAll(ordered, params, query_)
         /\ term' = term \o << [kind |-> "table", n |-> Cardinality(Tables(term)) + 1],
                               [kind |-> "summary", n |-> Cardinality(Tables(term)) + 1] >>
    /\ pc' = IF stage = "callback" THEN "save" ELSE "dispatch"
    /\ UNCHANGED << cfg, params, pending, stage, exitCode, servers, reviews, idx,
                    query_, title, html, nQueries, answered, discarded >>

\* cli(), its end: if output: term.save_html(path=output, ...); then click
\* invokes the chained subcommands
save_html ==
    /\ pc = "save"
    /\ html' = IF params.output THEN term ELSE html
    /\ stage' = "chain"
    /\ pc' = "dispatch"
    /\ UNCHANGED << cfg, params, pending, exitCode, servers, reviews, idx, query_,
                    title, rows, term, nQueries, answered, discarded, abandonCalls >>

\* no subcommand is left: the process ends with status 0
finish ==
    /\ pc = "dispatch"
    /\ pending = 0
    /\ pc' = "done"
    /\ exitCode' = 0
    /\ UNCHANGED << cfg, params, pending, stage, servers, reviews, idx, query_, title,
                    rows, term, html, nQueries, answered, discarded, abandonCalls >>

Next == cli \/ owned \/ incoming \/ merged \/ query \/ render \/ save_html \/ finish

Spec == Init /\ [][Next]_vars

\* ------------------------------------------------------ claim notions
RECURSIVE SeqSum(_)
SeqSum(s) == IF s = <<>> THEN 0 ELSE Head(s) + SeqSum(Tail(s))

Occurrences(s, x) == Cardinality({ k \in 1..Len(s) : s[k] = x })

\* the query string of the incoming view
IncomingQuery == "reviewer:self status:open"

\* the abandon policy's eligibility: open, negative score, old enough, not incoming
Eligible(r, p, q) ==
    /\ r.data.status = "NEW"
    /\ r.data.score < 0
    /\ r.data.age >= p.abandon_age
    /\ q # IncomingQuery

\* the running report has rendered its table
Rendered == pc \in {"save", "dispatch", "done"} /\ Tables(term) # {}

\* every endpoint answered the running query, none with an exception
QueryComplete ==
    /\ Len(answered) = Len(servers)
    /\ \A k \in 1..Len(answered) : ~answered[k].resp.raised

\* the endpoints that raised in the running query
Raised == { k \in 1..Len(answered) : answered[k].resp.raised }

\* the items the answers of the running query hold, endpoint by endpoint
RECURSIVE ItemsOf(_)
ItemsOf(ans) ==
    IF ans = <<>> THEN <<>>
    ELSE [k \in 1..Len(Head(ans).resp.records) |->
            Review(Head(ans).resp.records[k], Head(ans).server)] \o ItemsOf(Tail(ans))

\* the same items in another order
Reorderings(s) ==
    { [k \in 1..Len(s) |-> s[f[k]]] : f \in Permutations(1..Len(s)) }

RowsOf(s) == [k \in 1..Len(s) |-> as_columns(s[k])]

\* ------------------------------------------------------------- claims
\* C1 (as claimed): when one endpoint's query raises, App.query neither aborts
\* nor propagates the failure: the run goes on, every other endpoint is queried
\* and self.reviews ends as exactly the items of the endpoints that succeeded.
C1_PartialFailureTolerance ==
    Cardinality(Raised) = 1 =>
        /\ pc # "crashed"
        /\ exitCode # 1
        /\ (pc \in {"render", "save", "dispatch", "done"} =>
              /\ Len(answered) = Len(servers)
              /\ reviews = ItemsOf(SelectSeq(answered, LAMBDA a : ~a.resp.raised)))

\* C2: when every endpoint's query succeeded, self.reviews has as many items as
\* the endpoints returned records in total (the same review from two endpoints
\* counts twice), and every item's server is the endpoint that returned its record.
C2_AggregationCompleteness ==
    (pc \in {"render", "save", "dispatch", "done"} /\ QueryComplete) =>
        /\ Len(reviews) =
             SeqSum([k \in 1..Len(answered) |-> Len(answered[k].resp.records)])
        /\ \A i \in 1..Len(reviews) :
             \E k \in 1..Len(answered) :
               /\ answered[k].server = reviews[i].server
               /\ \E m \in 1..Len(answered[k].resp.records) :
                    answered[k].resp.records[m] = reviews[i].data

\* C2 witness: two endpoints returned the same review, and both entries are kept
C2_Witness ==
    /\ Rendered
    /\ QueryComplete
    /\ Len(servers) = 2
    /\ Len(reviews) = 2
    /\ reviews[1].data = reviews[2].data
    /\ reviews[1].server # reviews[2].server

\* C3: without --force no mutating (dry=False) abandon call is ever issued
C3_DryRunSafety ==
    ~params.force => \A k \in 1..Len(abandonCalls) : abandonCalls[k].dry

\* C3 witness: a finished run with --abandon, without --force, whose last report
\* listed an eligible item
C3_Witness ==
    /\ pc = "done"
    /\ params.abandon
    /\ ~params.force
    /\ \E i \in 1..Len(reviews) : Eligible(reviews[i], params, query_)

\* C4: abandon is never invoked on an item with score >= 0, or younger than the
\* threshold, or not open
C4_AbandonEligibility ==
    \A k \in 1..Len(abandonCalls) :
        /\ abandonCalls[k].review.data.score < 0
        /\ abandonCalls[k].review.data.age >= params.abandon_age
        /\ abandonCalls[k].review.data.status = "NEW"

\* C4 witness: a finished run with --abandon --force whose last report listed an
\* old open item of score 0 and an abandoned one
C4_Witness ==
    /\ pc = "done"
    /\ params.abandon
    /\ params.force
    /\ query_ # IncomingQuery
    /\ \E i \in 1..Len(reviews) :
         reviews[i].data.score >= 0 /\ reviews[i].data.age >= params.abandon_age
    /\ \E i \in 1..Len(reviews) : reviews[i].data.status = "ABANDONED"

\* C5 (as claimed): with --abandon --force, once the first report of the run is
\* rendered, abandon has been invoked exactly once for every eligible item of
\* self.reviews.
C5_AbandonEveryEligible ==
    (Rendered /\ Cardinality(Tables(term)) = 1 /\ params.abandon /\ params.force) =>
        \A i \in 1..Len(reviews) :
            Eligible(reviews[i], params, query_) =>
                Cardinality({ k \in 1..Len(abandonCalls) :
                                abandonCalls[k].review = reviews[i] })
                  = Occurrences(reviews, reviews[i])

\* C6: when App.__init__ ends with no endpoint, the process has halted with a
\* non-zero status, and no endpoint was queried and no report rendered
C6_NoEndpointIsFatal ==
    (pc # "start" /\ Len(servers) = 0) =>
        /\ pc \in {"exited", "crashed"}
        /\ exitCode = 1
        /\ nQueries = 0
        /\ Tables(term) = {}
        /\ html = <<>>

\* C6 witness: servers were configured, all were tried, none constructed
C6_Witness ==
    /\ pc = "exited"
    /\ ~params.serverGiven
    /\ Len(cfg) = MaxServers
    /\ servers = <<>>

\* C7: after App.__init__, self.servers is exactly the selected servers that
\* constructed, in configured order, whichever of them failed
C7_IndependentConstruction ==
    (pc # "start" /\ ~(params.serverGiven /\ params.server >= Len(cfg))) =>
        LET sel == IF params.serverGiven THEN {params.server + 1} ELSE 1..Len(cfg)
            good == { i \in sel : cfg[i].ok }
        IN /\ Len(servers) = Cardinality(good)
           /\ \A i \in good : \E k \in 1..Len(servers) : servers[k] = cfg[i].name
           /\ \A j, k \in 1..Len(servers) : j < k => servers[j] < servers[k]

\* C7 witness: the first configured server failed to construct, a later one is in
\* self.servers
C7_Witness ==
    /\ pc # "start"
    /\ ~params.serverGiven
    /\ Len(cfg) >= 2
    /\ ~cfg[1].ok
    /\ servers # <<>>
    /\ servers[1] = cfg[2].name

\* C8: self.reviews holds items of the running (most recent) query only: each
\* item, as often as the endpoint it is stamped with returned its record in this
\* query, and nothing of an earlier query
C8_RebuiltFresh ==
    /\ \A i \in 1..Len(reviews) :
         \E k \in 1..Len(answered) :
            /\ answered[k].server = reviews[i].server
            /\ Occurrences(reviews, reviews[i])
                 = Occurrences(answered[k].resp.records, reviews[i].data)
    /\ \A k \in 1..Len(answered) : \A m \in 1..Len(answered[k].resp.records) :
         \E i \in 1..Len(reviews) :
            reviews[i] = Review(answered[k].resp.records[m], answered[k].server)

\* C8 witness: a later report finished after the items of an earlier query were
\* dropped, and it holds fewer endpoints' items than there are endpoints
C8_Witness ==
    /\ Rendered
    /\ discarded
    /\ Cardinality(Tables(term)) >= 2
    /\ QueryComplete
    /\ Len(reviews) = 1

\* C9 (as claimed): the rows of a rendered report are in one total order (danger
\* descending, age descending, number ascending), and the same items in any other
\* input order give the identical row sequence.
C9_OrderingDeterminism ==
    Rendered =>
        /\ rows = RowsOf(sorted(sorted(reviews)))
        /\ \A j \in 1..Len(rows) : \A k \in 1..Len(rows) :
             (j < k /\ rows[j].meta = rows[k].meta /\ rows[j].age = rows[k].age)
                => rows[j].review <= rows[k].review
        /\ \A s \in Reorderings(reviews) : RowsOf(sorted(s)) = rows

\* C10 (as claimed): when --output was given, the file written holds every report
\* table of the run.
C10_ExportHoldsEveryReport ==
    (pc = "done" /\ params.output) =>
        /\ html # <<>>
        /\ \A k \in Tables(term) : \E m \in 1..Len(html) : html[m] = term[k]

====
